---- MODULE Spec2Model ----
(***************************************************************************)
(* The Topy kernel of src/topy_simple.py: Invariants (Betti numbers), the  *)
(* graph carrier, the two operators and TopyKernel.execute, one action per *)
(* statement of the per-operator protocol.                                 *)
(*                                                                         *)
(* A networkx Graph is a node set and a set of edges, each edge the set of *)
(* its endpoints. A Python dict is a function on the set of its keys; the  *)
(* labels β0, β1, β2 are written "b0", "b1", "b2".                         *)
(***************************************************************************)
EXTENDS Integers, Sequences, FiniteSets, TLC

\* ------------------------------------------------------------------ bounds
\* Node names are 0..MaxNode.
MaxNode == 2
\* Longest candidate-edge list of one I_AddCycleRedundancy.
MaxEdges == 2
\* Operators handed to execute over the life of one kernel.
MaxOps == 3
\* Largest max_betti1 a caller passes.
MaxK == 1
\* Largest value / absolute delta of the Invariants the pure-function
\* specifications draw.
MaxVal == 1

Nodes == 0..MaxNode

\* ------------------------------------------------------------------ dicts
EmptyDict == [k \in {} |-> 0]

\* dict.get(k, default)
Get(d, k, default) == IF k \in DOMAIN d THEN d[k] ELSE default

\* Python's None, where the other values are component indices >= 0
None == -1

\* ------------------------------------------------------------- Invariants
DefaultBetti == [b0 |-> 1, b1 |-> 0, b2 |-> 0]

\* Invariants.__init__: betti or {"β0": 1, "β1": 0, "β2": 0}
\* (None and the empty dict are both falsy)
Invariants_init(betti) == IF DOMAIN betti = {} THEN DefaultBetti ELSE betti

\* Invariants.copy: a new Invariants around a deep copy of self.betti
Invariants_copy(betti) == Invariants_init(betti)

\* copy() handing back the receiver's own dict
Invariants_copy_alias(h, self) == self

\* the storage of the instance copy() returns, in a heap h of betti dicts:
\* copy.deepcopy allocates a dict no other instance holds
Invariants_copy_ref(h, self) == Len(h) + 1

\* the loop body of apply_deltas over one group: out.betti[k] = out.betti.get(k, 0) + dv
ApplyGroup(out, kv) ==
    [k \in DOMAIN out \cup DOMAIN kv |->
        IF k \in DOMAIN kv THEN Get(out, k, 0) + kv[k] ELSE out[k]]

\* Invariants.apply_deltas, as the betti of the returned instance
apply_deltas(betti, deltas) ==
    LET out == Invariants_copy(betti)
    IN  IF "betti" \in DOMAIN deltas THEN ApplyGroup(out, deltas["betti"]) ELSE out

\* ----------------------------------------------------------- GraphCarrier
\* one round of a breadth-first search: seen plus its neighbours
Expand(E, seen) == seen \cup {w \in UNION E : \E v \in seen : {v, w} \in E}

RECURSIVE Bfs(_, _)
Bfs(E, seen) == IF Expand(E, seen) = seen THEN seen ELSE Bfs(E, Expand(E, seen))

SetMin(S) == CHOOSE x \in S : \A y \in S : x <= y

\* nx.connected_components: for each node not yet seen, the component the
\* search from it finds
RECURSIVE connected_components(_, _)
connected_components(E, rest) ==
    IF rest = {} THEN <<>>
    ELSE LET c == Bfs(E, {SetMin(rest)})
         IN  <<c>> \o connected_components(E, rest \ c)

number_connected_components(N, E) == Len(connected_components(E, N))

\* GraphCarrier.measure_invariants
\* measure_invariants with beta1 = m - n
measure_invariants_NoComponents(N, E) ==
    LET n == Cardinality(N)
        m == Cardinality(E)
        c == number_connected_components(N, E)
    IN  [b0 |-> c, b1 |-> m - n, b2 |-> 0]

measure_invariants(N, E) ==
    LET n == Cardinality(N)
        m == Cardinality(E)
        c == number_connected_components(N, E)
    IN  [b0 |-> c, b1 |-> m - n + c, b2 |-> 0]

\* -------------------------------------------------------------- Operators
AddName == "I_AddCycleRedundancy"
CalcName == "I_CalculateH1Graph"

requires_geometric_realization(op) == op.name = AddName
force_measure(op) == TRUE

\* self.parameters.get("edges", [])
ParamEdges(op) == Get(op.parameters, "edges", <<>>)

\* comp_index of I_AddCycleRedundancy.algebraic_effect: node -> index of its
\* component in the enumeration (0-based)
comp_index(N, E) ==
    LET comps == connected_components(E, N)
    IN  [v \in N |-> (CHOOSE i \in 1..Len(comps) : v \in comps[i]) - 1]

\* the loop with the two branches exchanged
RECURSIVE EffectLoop_Swapped(_, _, _, _)
EffectLoop_Swapped(ci, es, d1, d0) ==
    IF es = <<>> THEN <<d1, d0>>
    ELSE LET cu == Get(ci, Head(es)[1], None)
             cv == Get(ci, Head(es)[2], None)
         IN  IF cu # None /\ cv # None
             THEN IF cu = cv THEN EffectLoop_Swapped(ci, Tail(es), d1, d0 - 1)
                             ELSE EffectLoop_Swapped(ci, Tail(es), d1 + 1, d0)
             ELSE EffectLoop_Swapped(ci, Tail(es), d1, d0)

\* the loop without the test for None: an absent endpoint counts as another component
RECURSIVE EffectLoop_AbsentCounts(_, _, _, _)
EffectLoop_AbsentCounts(ci, es, d1, d0) ==
    IF es = <<>> THEN <<d1, d0>>
    ELSE LET cu == Get(ci, Head(es)[1], None)
             cv == Get(ci, Head(es)[2], None)
         IN  IF cu # None /\ cu = cv
             THEN EffectLoop_AbsentCounts(ci, Tail(es), d1 + 1, d0)
             ELSE EffectLoop_AbsentCounts(ci, Tail(es), d1, d0 - 1)

\* the loop with comp_index brought up to date after every edge that joins two
\* components
RECURSIVE EffectLoop_Incremental(_, _, _, _)
EffectLoop_Incremental(ci, es, d1, d0) ==
    IF es = <<>> THEN <<d1, d0>>
    ELSE LET cu == Get(ci, Head(es)[1], None)
             cv == Get(ci, Head(es)[2], None)
         IN  IF cu # None /\ cv # None
             THEN IF cu = cv
                  THEN EffectLoop_Incremental(ci, Tail(es), d1 + 1, d0)
                  ELSE EffectLoop_Incremental(
                           [n \in DOMAIN ci |-> IF ci[n] = cv THEN cu ELSE ci[n]],
                           Tail(es), d1, d0 - 1)
             ELSE EffectLoop_Incremental(ci, Tail(es), d1, d0)

\* the loop taking a cycle away for an edge inside one component
RECURSIVE EffectLoop_Removes(_, _, _, _)
EffectLoop_Removes(ci, es, d1, d0) ==
    IF es = <<>> THEN <<d1, d0>>
    ELSE LET cu == Get(ci, Head(es)[1], None)
             cv == Get(ci, Head(es)[2], None)
         IN  IF cu # None /\ cv # None
             THEN IF cu = cv THEN EffectLoop_Removes(ci, Tail(es), d1 - 1, d0)
                             ELSE EffectLoop_Removes(ci, Tail(es), d1, d0 - 1)
             ELSE EffectLoop_Removes(ci, Tail(es), d1, d0)

\* the loop over the candidate edges: the pair (delta_beta1, delta_beta0)
RECURSIVE EffectLoop(_, _, _, _)
EffectLoop(ci, es, d1, d0) ==
    IF es = <<>> THEN <<d1, d0>>
    ELSE LET cu == Get(ci, Head(es)[1], None)
             cv == Get(ci, Head(es)[2], None)
         IN  IF cu # None /\ cv # None
             THEN IF cu = cv THEN EffectLoop(ci, Tail(es), d1 + 1, d0)
                             ELSE EffectLoop(ci, Tail(es), d1, d0 - 1)
             ELSE EffectLoop(ci, Tail(es), d1, d0)

Add_algebraic_effect(op, N, E) ==
    LET r == EffectLoop(comp_index(N, E), ParamEdges(op), 0, 0)
    IN  [betti |-> [b1 |-> r[1], b0 |-> r[2]]]

Calc_algebraic_effect(op, N, E) == EmptyDict

algebraic_effect(op, N, E) ==
    IF op.name = AddName THEN Add_algebraic_effect(op, N, E)
                         ELSE Calc_algebraic_effect(op, N, E)

\* constraints.get("max_betti1", float("inf")): TRUE iff x <= that bound
LeqMaxB1(x, cons) == "max_betti1" \in DOMAIN cons => x <= cons["max_betti1"]

\* verify_contract with an exclusive bound
Add_verify_contract_Strict(current, ds, cons) ==
    IF ds["betti"]["b1"] < 0 THEN FALSE
    ELSE LeqMaxB1(current["b1"] + ds["betti"]["b1"] + 1, cons)

Add_verify_contract(current, ds, cons) ==
    IF ds["betti"]["b1"] < 0 THEN FALSE
    ELSE LeqMaxB1(current["b1"] + ds["betti"]["b1"], cons)

\* I_CalculateH1Graph.verify_contract testing max_betti1 as I_AddCycleRedundancy does
Calc_verify_contract_Bounded(current, ds, cons) == LeqMaxB1(current["b1"], cons)

Calc_verify_contract(current, ds, cons) == TRUE

verify_contract(op, current, ds, cons) ==
    IF op.name = AddName THEN Add_verify_contract(current, ds, cons)
                         ELSE Calc_verify_contract(current, ds, cons)

\* I_AddCycleRedundancy.realize_geometrically: the nodes and the edges of G after it
EdgeSet(es) == {{es[i][1], es[i][2]} : i \in 1..Len(es)}
RealizeNodes(op, N) == N \cup UNION EdgeSet(ParamEdges(op))

\* realize_geometrically adding the endpoints and no edge
RealizeEdges_Skips(op, E) == E

\* realize_geometrically adding to every node an edge to itself
RealizeEdges_Loops(op, E) ==
    E \cup EdgeSet(ParamEdges(op)) \cup {{n} : n \in UNION EdgeSet(ParamEdges(op))}

RealizeEdges(op, E) == E \cup EdgeSet(ParamEdges(op))

\* ----------------------------------------------------------------- inputs
Pairs == {p \in Nodes \X Nodes : p[1] < p[2]}

RECURSIVE ListsUpTo(_, _)
ListsUpTo(S, n) ==
    IF n = 0 THEN {<<>>}
    ELSE LET shorter == ListsUpTo(S, n - 1)
         IN  shorter \cup {Append(l, x) : l \in {s \in shorter : Len(s) = n - 1}, x \in S}

EdgeLists == ListsUpTo(Pairs, MaxEdges)

AddOps == {[name |-> AddName, parameters |-> [edges |-> es]] : es \in EdgeLists}
CalcOps == {[name |-> CalcName, parameters |-> EmptyDict]}
Operators == AddOps \cup CalcOps

ConstraintSets == {EmptyDict} \cup {[max_betti1 |-> k] : k \in 0..MaxK}

Labels == {"b0", "b1", "b2"}

\* the dicts label -> value in lo..hi
DictsOver(lo, hi) == UNION {[S -> lo..hi] : S \in SUBSET Labels}

\* arguments of Invariants(betti=...), None taken as the empty dict
BettiArgs == DictsOver(0, MaxVal)

\* arguments of apply_deltas: a "betti" group, a group that is not wired up, both or neither
OtherGroup == [euler |-> [chi |-> 1]]
DeltaArgs ==
    {EmptyDict, OtherGroup}
        \cup {[betti |-> kv] : kv \in DictsOver(-MaxVal, MaxVal)}
        \cup {[betti |-> kv, euler |-> OtherGroup.euler] : kv \in DictsOver(-MaxVal, MaxVal)}

\* the simple graphs whose nodes are 0..n-1 for some n: a caller names nodes in order
Graphs == {g \in [N : {0..(n - 1) : n \in 0..(MaxNode + 1)},
                  E : SUBSET {{p[1], p[2]} : p \in Pairs}] :
              UNION g.E \subseteq g.N}

\* the simple graphs on any nodes of Nodes: every carrier a kernel can hold
AllGraphs == {g \in [N : SUBSET Nodes, E : SUBSET {{p[1], p[2]} : p \in Pairs}] :
                 UNION g.E \subseteq g.N}

\* ------------------------------------------------------------------ state
VARIABLES
    nodes, edges,   \* kernel.carrier.G
    invariants,     \* kernel.invariants.betti
    log,            \* kernel.log
    pc,             \* where execute stands
    operator_spec,  \* the operator list of the running (or last) call
    i,              \* operators of operator_spec the loop has taken
    constraints,    \* the constraints of the running (or last) call
    op,             \* the loop variable op
    deltas,         \* the local deltas
    raised,         \* the TopyContractViolation the last call ended with, or NoError
    handed,         \* operators handed to execute since construction (at most MaxOps)
    verified,       \* history: operators whose verify_contract returned true
    entry,          \* history: the kernel when the call of execute began
    before,         \* history: the kernel when the loop took op
    heap,           \* the betti dicts of the Invariants instances a caller of apply_deltas holds
    self,           \* the receiver of apply_deltas (index in heap)
    out,            \* the instance apply_deltas returned (index in heap), 0 before the call
    given,          \* the deltas apply_deltas was called with
    old,            \* history: the receiver's betti when apply_deltas was called
    touched,        \* history: the returned instance was mutated after the call
    graphs,         \* the nx.Graph objects that carriers hold: records [N, E]
    carrierG,       \* per GraphCarrier (1 the source, 2 its clone): G, an index in graphs
    kinv,           \* per GraphCarrier: the invariants of the TopyKernel built on it
    ran             \* history: the carrier whose kernel committed last, 0 when none

kernelVars == <<nodes, edges, invariants, log, pc, operator_spec, i, constraints, op,
                deltas, raised, handed, verified, entry, before>>
cloneVars == <<graphs, carrierG, kinv, ran>>
objVars == <<heap, self, out, given, old, touched, cloneVars>>
vars == <<kernelVars, objVars>>

NoOp == [name |-> "", parameters |-> EmptyDict]
NoError == [name |-> "", deltas |-> EmptyDict]

\* the kernel's fields, as the history variables record them
Snapshot == [nodes |-> nodes, edges |-> edges, invariants |-> invariants, log |-> log]

\* no GraphCarrier is held outside the kernel
NoCarriers ==
    /\ graphs = <<>>
    /\ carrierG = <<>>
    /\ kinv = <<>>
    /\ ran = 0

\* no Invariants instance is held outside the kernel
NoObjects ==
    /\ heap = <<>>
    /\ self = 0
    /\ out = 0
    /\ given = EmptyDict
    /\ old = EmptyDict
    /\ touched = FALSE

\* TopyKernel.__init__
KernelInit(N, E) ==
    /\ nodes = N
    /\ edges = E
    /\ invariants = measure_invariants(N, E)
    /\ log = <<>>
    /\ pc = "idle"
    /\ operator_spec = <<>>
    /\ i = 0
    /\ constraints = EmptyDict
    /\ op = NoOp
    /\ deltas = EmptyDict
    /\ raised = NoError
    /\ handed = 0
    /\ verified = 0
    /\ entry = [nodes |-> N, edges |-> E, invariants |-> measure_invariants(N, E),
                log |-> <<>>]
    /\ before = entry

Init ==
    /\ \E g \in Graphs : KernelInit(g.N, g.E)
    /\ NoObjects
    /\ NoCarriers

\* a call of execute(operator_spec, constraints)
Execute ==
    /\ pc = "idle"
    /\ \E spec \in ListsUpTo(Operators, MaxOps - handed), cons \in ConstraintSets :
          /\ operator_spec' = spec
          /\ constraints' = cons
          /\ handed' = handed + Len(spec)
    /\ i' = 0
    /\ pc' = "loop"
    /\ raised' = NoError
    /\ entry' = Snapshot
    /\ UNCHANGED <<nodes, edges, invariants, log, op, deltas, verified, before,
                   objVars>>

\* algebraic_effect adding its candidate edges to the carrier it is given
Effect_Mutates ==
    /\ pc = "loop" /\ i < Len(operator_spec)
    /\ i' = i + 1
    /\ op' = operator_spec[i + 1]
    /\ deltas' = algebraic_effect(operator_spec[i + 1], nodes, edges)
    /\ nodes' = RealizeNodes(operator_spec[i + 1], nodes)
    /\ edges' = RealizeEdges(operator_spec[i + 1], edges)
    /\ before' = Snapshot
    /\ pc' = "verify"
    /\ UNCHANGED <<invariants, log, operator_spec, constraints, raised,
                   handed, verified, entry, objVars>>

\* for op in operator_spec: deltas = op.algebraic_effect(self.invariants, self.carrier)
Effect ==
    /\ pc = "loop" /\ i < Len(operator_spec)
    /\ i' = i + 1
    /\ op' = operator_spec[i + 1]
    /\ deltas' = algebraic_effect(operator_spec[i + 1], nodes, edges)
    /\ before' = Snapshot
    /\ pc' = "verify"
    /\ UNCHANGED <<nodes, edges, invariants, log, operator_spec, constraints, raised,
                   handed, verified, entry, objVars>>

\* execute applying the deltas before it verifies them
Verify_AfterApply ==
    /\ pc = "verify"
    /\ invariants' = apply_deltas(invariants, deltas)
    /\ \/ /\ verify_contract(op, invariants, deltas, constraints)
          /\ pc' = "realize"
          /\ verified' = verified + 1
          /\ UNCHANGED raised
       \/ /\ ~verify_contract(op, invariants, deltas, constraints)
          /\ raised' = [name |-> op.name, deltas |-> deltas]
          /\ pc' = "idle"
          /\ UNCHANGED verified
    /\ UNCHANGED <<nodes, edges, log, operator_spec, i, constraints, op,
                   deltas, handed, entry, before, objVars>>

\* execute noting the violation and going on with the next operator
Verify_Continues ==
    /\ pc = "verify"
    /\ \/ /\ verify_contract(op, invariants, deltas, constraints)
          /\ pc' = "apply"
          /\ verified' = verified + 1
          /\ UNCHANGED raised
       \/ /\ ~verify_contract(op, invariants, deltas, constraints)
          /\ raised' = [name |-> op.name, deltas |-> deltas]
          /\ pc' = "loop"
          /\ UNCHANGED verified
    /\ UNCHANGED <<nodes, edges, invariants, log, operator_spec, i, constraints, op,
                   deltas, handed, entry, before, objVars>>

\* execute raising without the deltas
Verify_BareError ==
    /\ pc = "verify"
    /\ \/ /\ verify_contract(op, invariants, deltas, constraints)
          /\ pc' = "apply"
          /\ verified' = verified + 1
          /\ UNCHANGED raised
       \/ /\ ~verify_contract(op, invariants, deltas, constraints)
          /\ raised' = [name |-> op.name, deltas |-> EmptyDict]
          /\ pc' = "idle"
          /\ UNCHANGED verified
    /\ UNCHANGED <<nodes, edges, invariants, log, operator_spec, i, constraints, op,
                   deltas, handed, entry, before, objVars>>

\* if not op.verify_contract(...): raise TopyContractViolation(name, deltas)
Verify ==
    /\ pc = "verify"
    /\ \/ /\ verify_contract(op, invariants, deltas, constraints)
          /\ pc' = "apply"
          /\ verified' = verified + 1
          /\ UNCHANGED raised
       \/ /\ ~verify_contract(op, invariants, deltas, constraints)
          /\ raised' = [name |-> op.name, deltas |-> deltas]
          /\ pc' = "idle"
          /\ UNCHANGED verified
    /\ UNCHANGED <<nodes, edges, invariants, log, operator_spec, i, constraints, op,
                   deltas, handed, entry, before, objVars>>

\* self.invariants = self.invariants.apply_deltas(deltas)
Apply ==
    /\ pc = "apply"
    /\ invariants' = apply_deltas(invariants, deltas)
    /\ pc' = "realize"
    /\ UNCHANGED <<nodes, edges, log, operator_spec, i, constraints, op, deltas, raised,
                   handed, verified, entry, before, objVars>>

\* if op.requires_geometric_realization: self.carrier = op.realize_geometrically(self.carrier)
Realize ==
    /\ pc = "realize"
    /\ IF requires_geometric_realization(op)
       THEN nodes' = RealizeNodes(op, nodes) /\ edges' = RealizeEdges(op, edges)
       ELSE UNCHANGED <<nodes, edges>>
    /\ pc' = "measure"
    /\ UNCHANGED <<invariants, log, operator_spec, i, constraints, op, deltas, raised,
                   handed, verified, entry, before, objVars>>

\* no reconciliation: the prediction stands
Reconcile_Never(measured, current) == current

\* the reconciliation: measured replaces the invariants when the betti differ
Reconcile(measured, current) == IF measured # current THEN measured ELSE current

\* if op.force_measure: measured = ...; if measured.betti != self.invariants.betti: ...
Measure ==
    /\ pc = "measure"
    /\ IF force_measure(op)
       THEN invariants' = Reconcile(measure_invariants(nodes, edges), invariants)
       ELSE UNCHANGED invariants
    /\ pc' = "log"
    /\ UNCHANGED <<nodes, edges, log, operator_spec, i, constraints, op, deltas, raised,
                   handed, verified, entry, before, objVars>>

\* the record execute appends for op
LogRecord(o, ds) == [name |-> o.name, parameters |-> o.parameters, deltas |-> ds]

\* the record put at the front of the log
LogAppend_Front ==
    /\ pc = "log"
    /\ log' = <<LogRecord(op, deltas)>> \o log
    /\ pc' = "loop"
    /\ UNCHANGED <<nodes, edges, invariants, operator_spec, i, constraints, op, deltas,
                   raised, handed, verified, entry, before, objVars>>

\* self.log.append((op.name, {"parameters": op.parameters, "deltas": deltas}))
LogAppend ==
    /\ pc = "log"
    /\ log' = Append(log, LogRecord(op, deltas))
    /\ pc' = "loop"
    /\ UNCHANGED <<nodes, edges, invariants, operator_spec, i, constraints, op, deltas,
                   raised, handed, verified, entry, before, objVars>>

\* the loop ends: execute returns
Return ==
    /\ pc = "loop" /\ i = Len(operator_spec)
    /\ pc' = "idle"
    /\ UNCHANGED <<nodes, edges, invariants, log, operator_spec, i, constraints, op,
                   deltas, raised, handed, verified, entry, before, objVars>>

Next ==
    \/ Execute
    \/ Effect
    \/ Verify
    \/ Apply
    \/ Realize
    \/ Measure
    \/ LogAppend
    \/ Return

Spec == Init /\ [][Next]_vars

\* ------------------------------------------- verify_contract on any inputs
\* I_AddCycleRedundancy.verify_contract is handed any current invariants, deltas,
\* constraints and carrier: execute stands before its call of verify_contract
InitVerify ==
    /\ \E g \in Graphs, o \in {a \in AddOps : Len(ParamEdges(a)) <= 1},
          cons \in ConstraintSets,
          b1 \in 0..MaxVal, d1 \in (-MaxVal)..MaxVal, d0 \in (-MaxVal)..MaxVal :
          /\ nodes = g.N
          /\ edges = g.E
          /\ invariants = [b0 |-> 1, b1 |-> b1, b2 |-> 0]
          /\ operator_spec = <<o>>
          /\ op = o
          /\ deltas = [betti |-> [b1 |-> d1, b0 |-> d0]]
          /\ constraints = cons
    /\ log = <<>>
    /\ pc = "verify"
    /\ i = 1
    /\ raised = NoError
    /\ handed = 1
    /\ verified = 0
    /\ entry = Snapshot
    /\ before = Snapshot
    /\ NoObjects
    /\ NoCarriers

SpecVerify == InitVerify /\ [][Verify]_vars

\* ----------------------------------------- algebraic_effect on any carrier
\* execute was called on a kernel built on any carrier, with one operator
InitEffect ==
    /\ \E g \in AllGraphs, o \in Operators, cons \in ConstraintSets :
          /\ nodes = g.N
          /\ edges = g.E
          /\ invariants = measure_invariants(g.N, g.E)
          /\ operator_spec = <<o>>
          /\ constraints = cons
    /\ log = <<>>
    /\ pc = "loop"
    /\ i = 0
    /\ op = NoOp
    /\ deltas = EmptyDict
    /\ raised = NoError
    /\ handed = 1
    /\ verified = 0
    /\ entry = Snapshot
    /\ before = Snapshot
    /\ NoObjects
    /\ NoCarriers

SpecEffect == InitEffect /\ [][Effect]_vars

\* ------------------------------------------------------- the demonstration
\* G0 = nx.path_graph(4)
DemoNodes == 4
\* kernel.execute(ops, {"max_betti1": 3})
DemoMaxB1 == 3

\* nx.path_graph(n): nodes 0..n-1, an edge from each node to the next
path_graph(n) == [N |-> 0..(n - 1), E |-> {{j, j + 1} : j \in 0..(n - 2)}]

\* operators on the nodes of G0: I_CalculateH1Graph({}), and
\* I_AddCycleRedundancy with no or one candidate edge, as [(0, 3)]
DemoPairs == {p \in path_graph(DemoNodes).N \X path_graph(DemoNodes).N : p[1] < p[2]}
DemoOperators ==
    CalcOps \cup {[name |-> AddName, parameters |-> [edges |-> es]] :
                     es \in ListsUpTo(DemoPairs, 1)}
DemoConstraints == ConstraintSets \cup {[max_betti1 |-> DemoMaxB1]}

\* kernel = TopyKernel(GraphCarrier(G0))
InitDemo ==
    /\ KernelInit(path_graph(DemoNodes).N, path_graph(DemoNodes).E)
    /\ NoObjects
    /\ NoCarriers

\* a call of execute on the demonstration's kernel
ExecuteDemo ==
    /\ pc = "idle"
    /\ \E spec \in ListsUpTo(DemoOperators, MaxOps - handed), cons \in DemoConstraints :
          /\ operator_spec' = spec
          /\ constraints' = cons
          /\ handed' = handed + Len(spec)
    /\ i' = 0
    /\ pc' = "loop"
    /\ raised' = NoError
    /\ entry' = Snapshot
    /\ UNCHANGED <<nodes, edges, invariants, log, op, deltas, verified, before,
                   objVars>>

NextDemo ==
    \/ ExecuteDemo
    \/ Effect
    \/ Verify
    \/ Apply
    \/ Realize
    \/ Measure
    \/ LogAppend
    \/ Return

SpecDemo == InitDemo /\ [][NextDemo]_vars

\* ------------------------------------------------ apply_deltas on the heap
\* a caller holds one Invariants instance
InitApply ==
    /\ KernelInit({}, {})
    /\ \E b \in BettiArgs : heap = <<Invariants_init(b)>>
    /\ self = 1
    /\ out = 0
    /\ given = EmptyDict
    /\ old = EmptyDict
    /\ touched = FALSE
    /\ NoCarriers

\* h with the dict at reference r set to b (allocated when r is new)
Store(h, r, b) == IF r = Len(h) + 1 THEN Append(h, b) ELSE [h EXCEPT ![r] = b]

\* out = self.apply_deltas(ds)
CallApplyDeltas ==
    /\ out = 0
    /\ \E ds \in DeltaArgs :
          /\ given' = ds
          /\ heap' = Store(heap, Invariants_copy_ref(heap, self), apply_deltas(heap[self], ds))
    /\ out' = Invariants_copy_ref(heap, self)
    /\ old' = heap[self]
    /\ UNCHANGED <<self, touched, kernelVars, cloneVars>>

\* out.betti[k] = v, by the caller after the call
MutateReturned ==
    /\ out # 0
    /\ ~touched
    /\ \E k \in Labels, v \in 0..(MaxVal + 1) :
          /\ Get(heap[out], k, v + 1) # v
          /\ heap' = [heap EXCEPT ![out] = [l \in DOMAIN heap[out] \cup {k} |->
                                               IF l = k THEN v ELSE heap[out][l]]]
    /\ touched' = TRUE
    /\ UNCHANGED <<self, out, given, old, kernelVars, cloneVars>>

NextApply ==
    \/ CallApplyDeltas
    \/ MutateReturned

SpecApply == InitApply /\ [][NextApply]_vars

\* ------------------------------------------------------ GraphCarrier.clone
\* self.G.copy() handing back self.G
Graph_copy_alias(h, r) == r

\* self.G.copy(): the reference of a new graph object
Graph_copy_ref(h, r) == Len(h) + 1

\* a caller holds one GraphCarrier, with a TopyKernel built on it
InitClone ==
    /\ KernelInit({}, {})
    /\ NoObjects
    /\ \E g \in Graphs :
          /\ graphs = <<g>>
          /\ kinv = <<measure_invariants(g.N, g.E)>>
    /\ carrierG = <<1>>
    /\ ran = 0

\* clone = source.clone(), and TopyKernel(clone)
Clone ==
    /\ Len(carrierG) = 1
    /\ LET g == graphs[carrierG[1]]
           r == Graph_copy_ref(graphs, carrierG[1])
       IN  /\ graphs' = Store(graphs, r, g)
           /\ carrierG' = Append(carrierG, r)
           /\ kinv' = Append(kinv, measure_invariants(g.N, g.E))
    /\ ran' = 0
    /\ UNCHANGED <<kernelVars, heap, self, out, given, old, touched>>

\* one round of the loop of execute that commits, in the kernel built on
\* carrier c, for an operator with at most one candidate edge:
\* realize_geometrically changes the graph object the carrier holds
ExecuteOn ==
    /\ \E c \in 1..Len(carrierG), o \in {a \in Operators : Len(ParamEdges(a)) <= 1},
          cons \in ConstraintSets :
          LET g == graphs[carrierG[c]]
              ds == algebraic_effect(o, g.N, g.E)
              g2 == IF requires_geometric_realization(o)
                    THEN [N |-> RealizeNodes(o, g.N), E |-> RealizeEdges(o, g.E)]
                    ELSE g
          IN  /\ verify_contract(o, kinv[c], ds, cons)
              /\ graphs' = [graphs EXCEPT ![carrierG[c]] = g2]
              /\ kinv' = [kinv EXCEPT ![c] =
                              IF force_measure(o)
                              THEN Reconcile(measure_invariants(g2.N, g2.E),
                                             apply_deltas(kinv[c], ds))
                              ELSE apply_deltas(kinv[c], ds)]
              /\ ran' = c
    /\ UNCHANGED <<carrierG, kernelVars, heap, self, out, given, old, touched>>

NextClone ==
    \/ Clone
    \/ ExecuteOn

SpecClone == InitClone /\ [][NextClone]_vars

\* ------------------------------------------------- graph facts, measured
\* The claims measure the carrier by cuts, not by the search the code runs:
\* u and v are joined iff every node set that holds u and not v is left by an edge.
Joined(N, E, u, v) ==
    \A S \in SUBSET N :
        (u \in S /\ v \notin S) => \E e \in E : e \cap S # {} /\ e \ S # {}

ComponentCount(N, E) == Cardinality({{w \in N : Joined(N, E, v, w)} : v \in N})

DirectBetti(N, E) ==
    [b0 |-> ComponentCount(N, E),
     b1 |-> Cardinality(E) - Cardinality(N) + ComponentCount(N, E),
     b2 |-> 0]

IsAdd(o) == o.name = AddName
HasMaxB1 == "max_betti1" \in DOMAIN constraints
Raised == pc = "idle" /\ raised # NoError
Returned == pc = "idle" /\ raised = NoError

\* candidate edges of es, by position: both endpoints in the graph and joined /
\* both in the graph and not joined / an endpoint not in the graph
PresentAt(es, N, j) == es[j][1] \in N /\ es[j][2] \in N
SameAt(es, N, E) == {j \in 1..Len(es) : PresentAt(es, N, j) /\ Joined(N, E, es[j][1], es[j][2])}
CrossAt(es, N, E) == {j \in 1..Len(es) : PresentAt(es, N, j) /\ ~Joined(N, E, es[j][1], es[j][2])}
AbsentAt(es, N) == {j \in 1..Len(es) : ~PresentAt(es, N, j)}

\* ------------------------------------------------------------------ claims

\* C1: whenever execute has returned without raising (and right after
\* construction), the kernel's invariants are the direct measurement of its
\* carrier: b0 = components, b1 = edges - nodes + components, b2 = 0.
C1_FinalInvariantsMeasured == Returned => invariants = DirectBetti(nodes, edges)

\* a run returned whose two operators both predicted a b1 delta of 0 and whose
\* first joined nodes 0 and 1, yet b1 is 1: the measurement replaced the prediction
C1_Witness ==
    /\ Returned
    /\ Len(log) = 2
    /\ log[1].parameters = [edges |-> << <<0, 1>> >>]
    /\ log[1].deltas = [betti |-> [b1 |-> 0, b0 |-> -1]]
    /\ IsAdd(log[2]) /\ log[2].deltas["betti"]["b1"] = 0
    /\ invariants["b1"] = 1

\* C2 as stated: with max_betti1 = K in the constraints and b1 <= K when execute
\* was called, b1 <= K after every operator that commits.
Committed == pc = "log" \/ (pc = "loop" /\ i > 0) \/ (Returned /\ i > 0)
C2_MaxBetti1Kept ==
    (Committed /\ HasMaxB1 /\ entry.invariants["b1"] <= constraints["max_betti1"])
        => invariants["b1"] <= constraints["max_betti1"]

\* C3: when verify_contract returns false, execute raises with carrier,
\* invariants and log as they were when the loop took the operator.
C3_RejectionLeavesKernel == Raised => Snapshot = before

\* an operator was rejected after an earlier one of the same call had changed the kernel
C3_Witness ==
    /\ Raised
    /\ i = 2
    /\ before.edges # entry.edges
    /\ before.invariants # entry.invariants

\* C4: a run whose first rejected operator is at position k raised at k: the
\* k-1 operators before it are committed (their records follow the log of the
\* call's start in order, their edges and endpoints are in the carrier, and the
\* invariants are the measurement of that carrier), operator k is the one
\* verification rejects, and the loop took no operator after it.
C4_FailFastNoRollback ==
    Raised =>
        /\ i \in 1..Len(operator_spec)
        /\ Len(log) = verified
        /\ Len(log) = Len(entry.log) + i - 1
        /\ log = entry.log \o [j \in 1..(i - 1) |->
                                 [name |-> operator_spec[j].name,
                                  parameters |-> operator_spec[j].parameters,
                                  deltas |-> log[Len(entry.log) + j].deltas]]
        /\ \A j \in 1..(i - 1) :
              IsAdd(operator_spec[j]) =>
                  /\ EdgeSet(ParamEdges(operator_spec[j])) \subseteq edges
                  /\ UNION EdgeSet(ParamEdges(operator_spec[j])) \subseteq nodes
        /\ invariants = DirectBetti(nodes, edges)
        /\ raised.name = operator_spec[i].name
        /\ ~verify_contract(operator_spec[i], invariants,
                            algebraic_effect(operator_spec[i], nodes, edges), constraints)
        /\ op = operator_spec[i]

\* three I_AddCycleRedundancy, only the third crossing max_betti1: two records,
\* the edges of the first two in the carrier, the third's edge not
C4_Witness ==
    /\ Raised
    /\ Len(operator_spec) = 3 /\ i = 3
    /\ \A j \in 1..3 : IsAdd(operator_spec[j]) /\ Len(ParamEdges(operator_spec[j])) = 1
    /\ entry.log = <<>> /\ Len(log) = 2
    /\ entry.edges = {}
    /\ edges = EdgeSet(ParamEdges(operator_spec[1])) \cup EdgeSet(ParamEdges(operator_spec[2]))
    /\ Cardinality(edges) = 2
    /\ ~(EdgeSet(ParamEdges(operator_spec[3])) \subseteq edges)

\* C5: I_AddCycleRedundancy.verify_contract accepts iff the b1 delta is not
\* negative and current b1 + b1 delta <= max_betti1 (inclusive; any sum when
\* max_betti1 is absent): the decision reads neither the b0 delta nor the carrier.
C5_VerifyContractDecision ==
    (pc # "verify" /\ IsAdd(op)) =>
        (pc = "apply" <=>
            /\ deltas["betti"]["b1"] >= 0
            /\ HasMaxB1 => invariants["b1"] + deltas["betti"]["b1"] <= constraints["max_betti1"])

\* a negative b1 delta was rejected though no max_betti1 was given
C5_Witness ==
    /\ Raised
    /\ deltas["betti"]["b1"] < 0
    /\ ~HasMaxB1

\* C6: for candidate edges whose endpoints are all in the carrier,
\* algebraic_effect returns b1 delta = the number of candidate edges joining
\* nodes of one component of the carrier as it is before the call, and
\* b0 delta = minus the number joining nodes of different components.
C6_EffectCountsPresentEdges ==
    (pc = "verify" /\ IsAdd(op) /\ AbsentAt(ParamEdges(op), nodes) = {}) =>
        deltas = [betti |-> [b1 |-> Cardinality(SameAt(ParamEdges(op), nodes, edges)),
                             b0 |-> -Cardinality(CrossAt(ParamEdges(op), nodes, edges))]]

\* two candidate edges, one inside a component and one between two
C6_Witness ==
    /\ pc = "verify" /\ IsAdd(op)
    /\ Len(ParamEdges(op)) = 2
    /\ AbsentAt(ParamEdges(op), nodes) = {}
    /\ deltas = [betti |-> [b1 |-> 1, b0 |-> -1]]

\* C7 as stated: a candidate edge with an endpoint absent from the carrier
\* contributes -1 to the b0 delta (and 0 to the b1 delta).
C7_AbsentEndpointLowersB0 ==
    (pc = "verify" /\ IsAdd(op)) =>
        deltas = [betti |->
            [b1 |-> Cardinality(SameAt(ParamEdges(op), nodes, edges)),
             b0 |-> -(Cardinality(CrossAt(ParamEdges(op), nodes, edges))
                        + Cardinality(AbsentAt(ParamEdges(op), nodes)))]]

\* C7 amended: a candidate edge with an endpoint absent from the carrier
\* contributes 0 to the b0 delta and 0 to the b1 delta: the deltas of a list
\* holding such edges count its other edges only.
C7_AbsentEndpointIgnored ==
    (pc = "verify" /\ IsAdd(op) /\ AbsentAt(ParamEdges(op), nodes) # {}) =>
        deltas = [betti |-> [b1 |-> Cardinality(SameAt(ParamEdges(op), nodes, edges)),
                             b0 |-> -Cardinality(CrossAt(ParamEdges(op), nodes, edges))]]

\* one candidate edge, neither endpoint in the carrier: both deltas 0
C7_Witness ==
    /\ pc = "verify" /\ IsAdd(op)
    /\ Len(ParamEdges(op)) = 1
    /\ ParamEdges(op)[1][1] \notin nodes
    /\ ParamEdges(op)[1][2] \notin nodes
    /\ deltas = [betti |-> [b1 |-> 0, b0 |-> 0]]

\* C8: the log is empty after construction, holds one record per operator that
\* passed verification (the one in flight is recorded last), and every step
\* leaves it alone or appends the record of the operator the loop holds: its
\* name, its parameters and the deltas algebraic_effect gave on the carrier as
\* it was when the loop took it.
InFlight == IF pc \in {"apply", "realize", "measure", "log"} THEN 1 ELSE 0
C8_LogAppendOnly ==
    /\ [](Len(log) = verified - InFlight)
    /\ [][\/ log' = log
          \/ /\ log' = Append(log, [name |-> operator_spec[i].name,
                                    parameters |-> operator_spec[i].parameters,
                                    deltas |-> algebraic_effect(operator_spec[i],
                                                                before.nodes, before.edges)])
             /\ Len(log') = verified]_vars

\* two records from two calls, and a rejected operator that left none
C8_Witness ==
    /\ Raised
    /\ Len(entry.log) = 1
    /\ Len(log) = 2
    /\ handed = 3

\* C9: the violation execute raises names the operator the loop holds, the
\* first of the call that verification rejects (every earlier one left its
\* record), and carries the deltas algebraic_effect gave for it.
C9_ViolationCarriesOperator ==
    Raised =>
        /\ raised.name = operator_spec[i].name
        /\ raised.deltas = algebraic_effect(operator_spec[i], before.nodes, before.edges)
        /\ ~verify_contract(operator_spec[i], before.invariants, raised.deltas, constraints)
        /\ Len(log) - Len(entry.log) = i - 1

\* the path 0-1-2, edges = [(0, 2)], max_betti1 = 0: deltas {b1: 1, b0: 0}
C9_Witness ==
    /\ Raised
    /\ before.nodes = {0, 1, 2}
    /\ before.edges = {{0, 1}, {1, 2}}
    /\ ParamEdges(op) = << <<0, 2>> >>
    /\ constraints = [max_betti1 |-> 0]
    /\ raised = [name |-> AddName, deltas |-> [betti |-> [b1 |-> 1, b0 |-> 0]]]

\* C10: apply_deltas returns a new instance whose betti is the receiver's with
\* the "betti" deltas added label by label (a missing label counting 0) and
\* nothing else changed; the receiver's betti is as it was, also once the
\* returned instance has been mutated.
GivenBetti == IF "betti" \in DOMAIN given THEN given["betti"] ELSE EmptyDict
C10_ApplyDeltasPure ==
    out # 0 =>
        /\ out # self
        /\ heap[self] = old
        /\ ~touched =>
              /\ DOMAIN heap[out] = DOMAIN old \cup DOMAIN GivenBetti
              /\ \A k \in DOMAIN heap[out] :
                    heap[out][k] = (IF k \in DOMAIN old THEN old[k] ELSE 0)
                                     + (IF k \in DOMAIN GivenBetti THEN GivenBetti[k] ELSE 0)

\* deltas with a label the receiver lacks and a group that is not "betti",
\* and the returned instance mutated afterwards
C10_Witness ==
    /\ out # 0
    /\ touched
    /\ DOMAIN given = {"betti", "euler"}
    /\ DOMAIN GivenBetti \ DOMAIN old # {}
    /\ heap[out] # old

\* the loop has finished with op: it committed it (the record may still be
\* to append) or raised on it; before is the kernel as op found it
OpDone == i > 0 /\ pc \in {"log", "loop", "idle"}

\* op is I_AddCycleRedundancy with one candidate edge (u, v), u # v, whose
\* endpoints the carrier held in one component and not adjacent
OneNewCycleEdge ==
    /\ IsAdd(op)
    /\ Len(ParamEdges(op)) = 1
    /\ LET u == ParamEdges(op)[1][1]
           v == ParamEdges(op)[1][2]
       IN  /\ u # v
           /\ u \in before.nodes /\ v \in before.nodes
           /\ Joined(before.nodes, before.edges, u, v)
           /\ {u, v} \notin before.edges

\* C11: such an operator, run with max_betti1 absent or >= b1 + 1, is not
\* rejected, raises the kernel's b1 by exactly 1, leaves b0 as it was and
\* leaves its edge in the carrier.
C11_OneCycleEdgeAddsOne ==
    (OpDone /\ OneNewCycleEdge
        /\ (HasMaxB1 => constraints["max_betti1"] >= before.invariants["b1"] + 1)) =>
        /\ raised = NoError
        /\ invariants["b1"] = before.invariants["b1"] + 1
        /\ invariants["b0"] = before.invariants["b0"]
        /\ {ParamEdges(op)[1][1], ParamEdges(op)[1][2]} \in edges

\* the demonstration: the path 0-1-2-3, edges = [(0, 3)], max_betti1 = 3,
\* after the first operator: b0 = 1, b1 = 1
C11_Witness ==
    /\ pc = "loop" /\ i = 1
    /\ operator_spec = << [name |-> AddName, parameters |-> [edges |-> << <<0, 3>> >>]],
                          [name |-> CalcName, parameters |-> EmptyDict] >>
    /\ constraints = [max_betti1 |-> 3]
    /\ before.edges = {{0, 1}, {1, 2}, {2, 3}}
    /\ before.invariants = [b0 |-> 1, b1 |-> 0, b2 |-> 0]
    /\ invariants = [b0 |-> 1, b1 |-> 1, b2 |-> 0]
    /\ {0, 3} \in edges

\* the loop holds op: it took it from operator_spec and has not taken the next
OpTaken == i > 0 /\ op = operator_spec[i]

\* C12: I_CalculateH1Graph, taken when the invariants equal the direct
\* measurement of the carrier, is never rejected whatever the constraints,
\* leaves invariants and carrier as they were at every step, and appends
\* exactly one record, with empty deltas.
C12_CalcStableCheckpoint ==
    (OpTaken /\ ~IsAdd(op)
        /\ before.invariants = DirectBetti(before.nodes, before.edges)) =>
        /\ raised = NoError
        /\ invariants = before.invariants
        /\ nodes = before.nodes
        /\ edges = before.edges
        /\ deltas = EmptyDict
        /\ log = IF pc \in {"loop", "idle"}
                 THEN Append(before.log, [name |-> CalcName,
                                          parameters |-> op.parameters,
                                          deltas |-> EmptyDict])
                 ELSE before.log

\* I_CalculateH1Graph committed twice in a row on a carrier with a cycle,
\* under max_betti1 = 0
C12_Witness ==
    /\ pc = "loop" /\ i >= 2
    /\ ~IsAdd(operator_spec[i - 1]) /\ ~IsAdd(operator_spec[i])
    /\ constraints = [max_betti1 |-> 0]
    /\ invariants["b1"] = 1
    /\ invariants = DirectBetti(nodes, edges)
    /\ Len(log) >= 2
    /\ log[Len(log)].deltas = EmptyDict /\ log[Len(log) - 1].deltas = EmptyDict

\* the carrier has been handed to realize_geometrically for op and come back
Realized == OpTaken /\ raised = NoError /\ pc \in {"measure", "log", "loop", "idle"}

\* C13: after a committed I_AddCycleRedundancy the carrier holds every
\* candidate edge and both its endpoints, every node and edge it held before,
\* and nothing else.
C13_RealizeAddsCandidatesOnly ==
    (Realized /\ IsAdd(op)) =>
        LET es == ParamEdges(op)
        IN  /\ \A j \in 1..Len(es) :
                  /\ es[j][1] \in nodes /\ es[j][2] \in nodes
                  /\ {es[j][1], es[j][2]} \in edges
            /\ before.nodes \subseteq nodes
            /\ before.edges \subseteq edges
            /\ \A n \in nodes \ before.nodes :
                  \E j \in 1..Len(es) : n = es[j][1] \/ n = es[j][2]
            /\ \A e \in edges \ before.edges :
                  \E j \in 1..Len(es) : e = {es[j][1], es[j][2]}

\* a committed I_AddCycleRedundancy that inserted a missing endpoint into a
\* carrier that already had an edge
C13_Witness ==
    /\ pc = "loop" /\ OpTaken /\ IsAdd(op)
    /\ before.edges # {}
    /\ nodes # before.nodes
    /\ Cardinality(edges) = Cardinality(before.edges) + 2

\* the graph that carrier c holds, in the heap h under the references cg
GraphOf(h, cg, c) == h[cg[c]]

\* C14: clone returns a carrier with the nodes and edges of the source and
\* leaves the source as it was; afterwards an operator committed by the kernel
\* of one carrier leaves nodes, edges and measured invariants of the other
\* carrier unchanged, in both directions.
C14_CloneIndependent ==
    [][/\ Len(carrierG') > Len(carrierG) =>
             GraphOf(graphs', carrierG', Len(carrierG')) = GraphOf(graphs, carrierG, 1)
       /\ \A c \in 1..Len(carrierG) :
             c # ran' =>
                 /\ GraphOf(graphs', carrierG', c) = GraphOf(graphs, carrierG, c)
                 /\ measure_invariants(GraphOf(graphs', carrierG', c).N,
                                       GraphOf(graphs', carrierG', c).E)
                      = measure_invariants(GraphOf(graphs, carrierG, c).N,
                                           GraphOf(graphs, carrierG, c).E)]_vars

\* source and clone have each been given an edge the other has not; the
\* kernel of the clone ran last
C14_Witness ==
    /\ Len(carrierG) = 2
    /\ ran = 2
    /\ GraphOf(graphs, carrierG, 2).E \ GraphOf(graphs, carrierG, 1).E # {}
    /\ GraphOf(graphs, carrierG, 1).E \ GraphOf(graphs, carrierG, 2).E # {}
    /\ GraphOf(graphs, carrierG, 1).N # GraphOf(graphs, carrierG, 2).N

\* I_AddCycleRedundancy with the candidate edges es
AddOf(es) == [name |-> AddName, parameters |-> [edges |-> es]]

\* the bijections of 1..n
Orders(n) == {f \in [1..n -> 1..n] : \A a, b \in 1..n : f[a] = f[b] => a = b}

\* C15: the deltas of I_AddCycleRedundancy over a list of candidate edges are,
\* label by label, the sum over the positions of the list of the deltas of the
\* edge at that position taken alone on the same carrier, and they are the
\* same for every order of the list.
C15_EffectSumsSingleEdges ==
    (pc = "verify" /\ IsAdd(op)) =>
        LET es == ParamEdges(op)
            alone(j) == algebraic_effect(AddOf(<<es[j]>>), nodes, edges)["betti"]
            sum1[k \in 0..Len(es)] == IF k = 0 THEN 0 ELSE sum1[k - 1] + alone(k)["b1"]
            sum0[k \in 0..Len(es)] == IF k = 0 THEN 0 ELSE sum0[k - 1] + alone(k)["b0"]
        IN  /\ deltas["betti"]["b1"] = sum1[Len(es)]
            /\ deltas["betti"]["b0"] = sum0[Len(es)]
            /\ \A f \in Orders(Len(es)) :
                  algebraic_effect(AddOf([j \in 1..Len(es) |-> es[f[j]]]), nodes, edges)
                      = deltas

\* the same edge twice between two components: counted twice, against the
\* partition the call found
C15_Witness ==
    /\ pc = "verify" /\ IsAdd(op)
    /\ Len(ParamEdges(op)) = 2
    /\ ParamEdges(op)[1] = ParamEdges(op)[2]
    /\ PresentAt(ParamEdges(op), nodes, 1)
    /\ ~Joined(nodes, edges, ParamEdges(op)[1][1], ParamEdges(op)[1][2])
    /\ deltas["betti"] = [b1 |-> 0, b0 |-> -2]

\* the order of the steps of execute: from each position, the positions that
\* may follow
StepOrder ==
    {<<"idle", "loop">>, <<"loop", "verify">>, <<"loop", "idle">>,
     <<"verify", "apply">>, <<"verify", "idle">>, <<"apply", "realize">>,
     <<"realize", "measure">>, <<"measure", "log">>, <<"log", "loop">>}

\* C16: the steps of an operator come in the order effect, verify, apply,
\* realize, measure, log, and the next operator is taken only after the log
\* append; effect and verify change neither carrier nor invariants; the
\* deltas verified are those of the carrier and invariants the previous
\* operator left; the carrier changes only in the realize step of an operator
\* that requires realization and that verify_contract accepted; the record is
\* appended only after the reconciliation, with invariants equal to the
\* measurement.
C16_ProtocolOrder ==
    [][/\ pc' # pc => <<pc, pc'>> \in StepOrder
       /\ (i' # i /\ pc # "idle") => (pc = "loop" /\ i' = i + 1)
       /\ pc \in {"loop", "verify"} =>
             (nodes' = nodes /\ edges' = edges /\ invariants' = invariants)
       /\ pc' = "verify" =>
             /\ before' = Snapshot
             /\ op' = operator_spec[i']
             /\ deltas' = algebraic_effect(op', nodes, edges)
       /\ (pc = "verify" /\ pc' = "apply") =>
             verify_contract(op, before.invariants, deltas, constraints)
       /\ (pc = "verify" /\ pc' = "idle") =>
             ~verify_contract(op, before.invariants, deltas, constraints)
       /\ (nodes' # nodes \/ edges' # edges) =>
             /\ pc = "realize"
             /\ requires_geometric_realization(op)
             /\ verify_contract(op, before.invariants, deltas, constraints)
             /\ invariants = apply_deltas(before.invariants, deltas)
       /\ invariants' # invariants => pc \in {"apply", "measure"}
       /\ pc = "measure" =>
             (force_measure(op) => invariants' = DirectBetti(nodes, edges))
       /\ log' # log =>
             /\ pc = "log"
             /\ force_measure(op) => invariants = DirectBetti(nodes, edges)
      ]_vars

\* the second operator of a call at its log append, having changed carrier
\* and invariants that the first operator had changed before it
C16_Witness ==
    /\ pc = "log" /\ i = 2
    /\ IsAdd(op) /\ IsAdd(operator_spec[1])
    /\ edges # before.edges
    /\ invariants # before.invariants
    /\ before.edges # entry.edges
    /\ before.invariants # entry.invariants
    /\ Len(log) = Len(entry.log) + 1

\* C17: the deltas of I_AddCycleRedundancy have b1 >= 0, b0 <= 0 and
\* |b1| + |b0| at most the number of candidate edges; a violation is raised
\* only by I_AddCycleRedundancy, with a b1 delta >= 0 and with max_betti1
\* present and below the predicted b1, so never when max_betti1 is absent.
C17_RejectedOnlyByMaxBetti1 ==
    /\ (OpTaken /\ IsAdd(op)) =>
          /\ deltas["betti"]["b1"] >= 0
          /\ deltas["betti"]["b0"] <= 0
          /\ deltas["betti"]["b1"] - deltas["betti"]["b0"] <= Len(ParamEdges(op))
    /\ Raised =>
          /\ IsAdd(op)
          /\ raised.deltas["betti"]["b1"] >= 0
          /\ HasMaxB1
          /\ before.invariants["b1"] + raised.deltas["betti"]["b1"]
                > constraints["max_betti1"]

\* a call without max_betti1 that returned after two I_AddCycleRedundancy,
\* the second with one edge inside a component and one between two
C17_Witness ==
    /\ Returned /\ ~HasMaxB1
    /\ i = 2 /\ IsAdd(operator_spec[1]) /\ IsAdd(op)
    /\ deltas["betti"] = [b1 |-> 1, b0 |-> -1]
    /\ Len(ParamEdges(op)) = 2

\* the loop stands between two operators, or execute is not running
Boundary == pc \in {"loop", "idle"}

\* C18: over all calls of execute, those that raise included, no step takes
\* a node or an edge from the carrier; at every operator boundary b1 is at
\* least what it was at the boundary before and at the start of the call,
\* b2 is 0, and b0 and b1 are not negative.
C18_CarrierAndB1OnlyGrow ==
    /\ [][nodes \subseteq nodes' /\ edges \subseteq edges']_vars
    /\ [](Boundary =>
            /\ invariants["b2"] = 0
            /\ invariants["b0"] >= 0
            /\ invariants["b1"] >= 0
            /\ invariants["b1"] >= entry.invariants["b1"]
            /\ i > 0 => invariants["b1"] >= before.invariants["b1"])

\* a call that raised on its third operator after the first two had added
\* a node, edges and a cycle to a carrier that had an edge
C18_Witness ==
    /\ Raised /\ i = 3
    /\ nodes # entry.nodes
    /\ entry.edges # {} /\ edges # entry.edges
    /\ invariants["b1"] > entry.invariants["b1"]

====
